---- MODULE Spec2Model ----
(***************************************************************************)
(* Model of the notebook "Geojson and Rasterio Demo.ipynb": a linear       *)
(* sequence of cells that takes the bounds of a county shape, opens a      *)
(* raster, resolves a pixel window from the bounds, reads the window,      *)
(* builds a local affine transform, rasterizes the shape into a 0/1 mask,  *)
(* and combines mask and pixels (a product for the plot, a numpy masked    *)
(* array for min / max / mean / standard deviation).                       *)
(*                                                                         *)
(* Geographic coordinates and transform coefficients are integers (a       *)
(* fixed-point grid); a pixel scale of 2 or more makes box corners fall at *)
(* fractional pixel offsets.  An affine transform is the record            *)
(* [a, b, c, d, e, f] with lon = a*col + b*row + c, lat = d*col + e*row + f.*)
(***************************************************************************)
EXTENDS Integers, Sequences, FiniteSets

\* ---------------------------------------------------------------- bounds
\* Largest pixel scale |a| = |e| of a raster (scales run from 2).
MaxScale == 3
\* Rasters are RasterSize x RasterSize pixels.
RasterSize == 3
\* Shape coordinates run from -Margin to MaxCoord.
Margin == 1
MaxCoord == 9

VARIABLES
    pc,               \* the next cell to run, "done", or "error"
    err,              \* the exception that stopped the run, or "none"
    raster,           \* the file on disk: [affine, height, width, seed]
    ny_shape,         \* the county geometry: [kind, x0, y0, x1, y1]
    bbox,             \* <<lon_min, lat_min, lon_max, lat_max>>
    raster_file,      \* the dataset handle: "unopened", "open" or "closed"
    edges,            \* [top, bottom, left, right]
    raster_window,    \* <<<<row_start, row_end>>, <<col_start, col_end>>>>
    ny_raster_array,  \* [shape |-> <<h, w>>, data |-> [cell -> value]]
    ny_affine,        \* the local transform
    ny_mask,          \* [shape, data] with data in {0, 1}
    plotted,          \* ny_raster_array * (1 - ny_mask)
    ny_masked,        \* [data, mask]: the numpy masked array
    printed           \* [min, max, mean, std] as printed

vars == <<pc, err, raster, ny_shape, bbox, raster_file, edges, raster_window,
          ny_raster_array, ny_affine, ny_mask, plotted, ny_masked, printed>>

\* ------------------------------------------------------------ arithmetic
Abs(n) == IF n < 0 THEN -n ELSE n

Max2(x, y) == IF x >= y THEN x ELSE y

Min2(x, y) == IF x <= y THEN x ELSE y

\* floor(n / d) for d > 0
FloorDivPos(n, d) == IF n >= 0 THEN n \div d ELSE -((d - 1 - n) \div d)

\* math.floor(n / d), d # 0 of either sign
FloorDiv(n, d) == IF d > 0 THEN FloorDivPos(n, d) ELSE FloorDivPos(-n, -d)

RECURSIVE Gcd(_, _)
Gcd(x, y) == IF y = 0 THEN x ELSE Gcd(y, x % y)

\* the rational num / den (den > 0) in lowest terms, as <<num, den>>
Ratio(num, den) ==
    LET g == Gcd(Abs(num), den)
    IN  <<(IF num < 0 THEN -(Abs(num) \div g) ELSE num \div g), den \div g>>

\* ---------------------------------------------------------------- arrays
Cells(shape) == (0 .. shape[1] - 1) \X (0 .. shape[2] - 1)

RECURSIVE SumOver(_, _)
SumOver(S, f) ==
    IF S = {} THEN 0
    ELSE LET p == CHOOSE q \in S : TRUE
         IN  f[p] + SumOver(S \ {p}, f)

\* ---------------------------------------------------------- the raster
\* The sample stored on disk at (row, col) of the raster.
Pixel(r, row, col) == ((3 * row + 2 * col + r.seed) % 5) - 1

\* dataset.index(x, y): the (row, col) of the pixel containing (x, y)
index(r, x, y) ==
    <<FloorDiv(y - r.affine.f, r.affine.e), FloorDiv(x - r.affine.c, r.affine.a)>>

\* shape.bounds
bounds(s) == <<s.x0, s.y0, s.x1, s.y1>>

Scales == 2 .. MaxScale
Coords == (0 - Margin) .. MaxCoord

Rasters ==
    { [affine |-> [a |-> s, b |-> 0, c |-> 0, d |-> 0, e |-> sg * s,
                   f |-> IF sg < 0 THEN s * RasterSize ELSE 0],
       height |-> RasterSize, width |-> RasterSize, seed |-> sd] :
      s \in Scales, sg \in {-1, 1}, sd \in {0, 1} }

Shapes ==
    { [kind |-> k, x0 |-> x0, y0 |-> y0, x1 |-> x1, y1 |-> y1] :
      k \in {"box", "tri"}, x0 \in Coords, y0 \in Coords,
      x1 \in Coords, y1 \in Coords }

Unset == <<>>

Init ==
    /\ pc = "bounds"
    /\ err = "none"
    /\ raster \in Rasters
    /\ ny_shape \in {s \in Shapes : s.x0 <= s.x1 /\ s.y0 <= s.y1}
    /\ raster_file = "unopened"
    /\ bbox = Unset
    /\ edges = Unset
    /\ raster_window = Unset
    /\ ny_raster_array = Unset
    /\ ny_affine = Unset
    /\ ny_mask = Unset
    /\ plotted = Unset
    /\ ny_masked = Unset
    /\ printed = Unset

\* lon_min, lat_min, lon_max, lat_max = ny_shape.bounds
Bounds ==
    /\ pc = "bounds"
    /\ bbox' = bounds(ny_shape)
    /\ pc' = "window"
    /\ UNCHANGED <<err, raster, ny_shape, raster_file, edges, raster_window,
                   ny_raster_array, ny_affine, ny_mask, plotted, ny_masked,
                   printed>>

\* ------------------------------------------------- window resolution
\* the window with the two rows taken in the other order
SwappedWindow(top, bottom, left, right) ==
    <<<<bottom, top + 1>>, <<left, right + 1>>>>

\* the window without the +1 that makes the end rows and columns inclusive
TightWindow(top, bottom, left, right) ==
    <<<<top, bottom>>, <<left, right>>>>

\* raster_window = ((top, bottom+1), (left, right+1))
MakeWindow(top, bottom, left, right) ==
    <<<<top, bottom + 1>>, <<left, right + 1>>>>

\* bottom, left = raster_file.index(lon_min, lat_min)
\* top, right = raster_file.index(lon_max, lat_max)
ResolveEdges(r, box) ==
    LET lo == index(r, box[1], box[2])
        hi == index(r, box[3], box[4])
    IN  [top |-> hi[1], bottom |-> lo[1], left |-> lo[2], right |-> hi[2]]

\* The cell that opens the raster and resolves the pixel window.  It has no
\* check of the window against the raster's extent and raises nothing.
OpenAndWindow ==
    /\ pc = "window"
    /\ raster_file' = "open"
    /\ edges' = ResolveEdges(raster, bbox)
    /\ raster_window' = MakeWindow(edges'.top, edges'.bottom,
                                   edges'.left, edges'.right)
    /\ pc' = "read"
    /\ UNCHANGED <<err, raster, ny_shape, bbox, ny_raster_array, ny_affine,
                   ny_mask, plotted, ny_masked, printed>>

\* ------------------------------------------------------------- reading
RowStart(w) == w[1][1]
RowEnd(w) == w[1][2]
ColStart(w) == w[2][1]
ColEnd(w) == w[2][2]

\* the window lies inside the raster and has positive area
InBounds(r, w) ==
    /\ 0 <= RowStart(w) /\ RowStart(w) < RowEnd(w) /\ RowEnd(w) <= r.height
    /\ 0 <= ColStart(w) /\ ColStart(w) < ColEnd(w) /\ ColEnd(w) <= r.width

\* raster_file.read(indexes=1, window=w): the samples of the window, the
\* window cut to the raster (an empty array when nothing is left).
ReadWindow(r, w) ==
    LET r0 == Max2(0, RowStart(w))
        r1 == Min2(r.height, RowEnd(w))
        c0 == Max2(0, ColStart(w))
        c1 == Min2(r.width, ColEnd(w))
        shape == <<Max2(0, r1 - r0), Max2(0, c1 - c0)>>
    IN  [shape |-> shape,
         data |-> [p \in Cells(shape) |-> Pixel(r, r0 + p[1], c0 + p[2])]]

Read ==
    /\ pc = "read"
    /\ ny_raster_array' = ReadWindow(raster, raster_window)
    /\ pc' = "affine"
    /\ UNCHANGED <<err, raster, ny_shape, bbox, raster_file, edges,
                   raster_window, ny_affine, ny_mask, plotted, ny_masked,
                   printed>>

\* A window that is not inside the raster is outside the contract of read:
\* depending on the library build it is cut to the raster (Read) or refused.
ReadRefused ==
    /\ pc = "read"
    /\ ~InBounds(raster, raster_window)
    /\ pc' = "error"
    /\ err' = "WindowError"
    /\ UNCHANGED <<raster, ny_shape, bbox, raster_file, edges, raster_window,
                   ny_raster_array, ny_affine, ny_mask, plotted, ny_masked,
                   printed>>

\* ------------------------------------------------------- local affine
\* ny_affine = Affine(rfa.a, rfa.b, lon_min, rfa.d, rfa.e, lat_max)
LocalAffine(rfa, box) ==
    [a |-> rfa.a, b |-> rfa.b, c |-> box[1],
     d |-> rfa.d, e |-> rfa.e, f |-> box[4]]

BuildAffine ==
    /\ pc = "affine"
    /\ ny_affine' = LocalAffine(raster.affine, bbox)
    /\ pc' = "rasterize"
    /\ UNCHANGED <<err, raster, ny_shape, bbox, raster_file, edges,
                   raster_window, ny_raster_array, ny_mask, plotted,
                   ny_masked, printed>>

\* --------------------------------------------------------- rasterizing
\* Twice the longitude / latitude of the centre of cell (row, col) under t.
CentreLon2(t, row, col) == 2 * t.c + t.a * (2 * col + 1) + t.b * (2 * row + 1)
CentreLat2(t, row, col) == 2 * t.f + t.d * (2 * col + 1) + t.e * (2 * row + 1)

\* The shape covers the point (x2 / 2, y2 / 2).  A "box" fills its bounds; a
\* "tri" is the triangle (x0, y0), (x1, y0), (x0, y1).
Covers(s, x2, y2) ==
    /\ 2 * s.x0 <= x2 /\ x2 < 2 * s.x1
    /\ 2 * s.y0 <= y2 /\ y2 < 2 * s.y1
    /\ s.kind = "tri" =>
         (x2 - 2 * s.x0) * (s.y1 - s.y0) + (y2 - 2 * s.y0) * (s.x1 - s.x0)
           < 2 * (s.x1 - s.x0) * (s.y1 - s.y0)

\* rasterize(shapes=[(s, value)], out_shape, transform, fill): value in the
\* cells whose centre the shape covers, fill elsewhere.
rasterize(s, value, out_shape, transform, fill) ==
    [shape |-> out_shape,
     data |-> [p \in Cells(out_shape) |->
                 IF Covers(s, CentreLon2(transform, p[1], p[2]),
                              CentreLat2(transform, p[1], p[2]))
                 THEN value ELSE fill]]

Rasterize ==
    /\ pc = "rasterize"
    /\ ny_raster_array.shape[1] > 0 /\ ny_raster_array.shape[2] > 0
    /\ ny_mask' = rasterize(ny_shape, 0, ny_raster_array.shape, ny_affine, 1)
    /\ pc' = "combine"
    /\ UNCHANGED <<err, raster, ny_shape, bbox, raster_file, edges,
                   raster_window, ny_raster_array, ny_affine, plotted,
                   ny_masked, printed>>

\* rasterize refuses an out_shape with a zero dimension
RasterizeRefused ==
    /\ pc = "rasterize"
    /\ ny_raster_array.shape[1] = 0 \/ ny_raster_array.shape[2] = 0
    /\ pc' = "error"
    /\ err' = "ValueError"
    /\ UNCHANGED <<raster, ny_shape, bbox, raster_file, edges, raster_window,
                   ny_raster_array, ny_affine, ny_mask, plotted, ny_masked,
                   printed>>

\* ----------------------------------------------------------- combining
\* the product with the mask's polarity inverted: ny_raster_array * ny_mask
WrongProduct(arr, mask) ==
    [shape |-> arr.shape,
     data |-> [p \in Cells(arr.shape) |-> arr.data[p] * mask.data[p]]]

\* ny_raster_array * (1 - ny_mask), the mask being uint8
Product(arr, mask) ==
    [shape |-> arr.shape,
     data |-> [p \in Cells(arr.shape) |->
                 arr.data[p] * ((1 - mask.data[p]) % 256)]]

Combine ==
    /\ pc = "combine"
    /\ plotted' = Product(ny_raster_array, ny_mask)
    /\ pc' = "stats"
    /\ UNCHANGED <<err, raster, ny_shape, bbox, raster_file, edges,
                   raster_window, ny_raster_array, ny_affine, ny_mask,
                   ny_masked, printed>>

\* ---------------------------------------------------------- statistics
\* np.ma.array(data=arr, mask=mask.astype(bool))
MaskedArray(arr, mask) ==
    [shape |-> arr.shape, data |-> arr.data,
     mask |-> [p \in Cells(arr.shape) |-> mask.data[p] # 0]]

\* the cells a masked array counts
Unmasked(m) == {p \in Cells(m.shape) : ~m.mask[p]}

\* numpy's masked constant, printed as "--"
Masked == <<>>

\* min, max, mean and std of the cells in S, S = {} giving the masked
\* constant.  mean is the rational <<num, den>>; std is held by its square,
\* the variance, as a rational.
StatsOver(S, data) ==
    IF S = {} THEN [min |-> Masked, max |-> Masked, mean |-> Masked, std |-> Masked]
    ELSE LET n == Cardinality(S)
             sum == SumOver(S, data)
             sumsq == SumOver(S, [p \in S |-> data[p] * data[p]])
         IN  [min |-> <<CHOOSE v \in {data[p] : p \in S} :
                          \A q \in S : v <= data[q]>>,
              max |-> <<CHOOSE v \in {data[p] : p \in S} :
                          \A q \in S : v >= data[q]>>,
              mean |-> Ratio(sum, n),
              std |-> Ratio(n * sumsq - sum * sum, n * n)]

\* the statistics with the masked cells counted as zero-valued samples
ZeroFilledStats(m) ==
    StatsOver(Cells(m.shape),
              [p \in Cells(m.shape) |-> IF m.mask[p] THEN 0 ELSE m.data[p]])

\* ny_masked.min(), .max(), .mean(), .std()
MaskedStats(m) == StatsOver(Unmasked(m), m.data)

Stats ==
    /\ pc = "stats"
    /\ ny_masked' = MaskedArray(ny_raster_array, ny_mask)
    /\ printed' = MaskedStats(ny_masked')
    /\ pc' = "done"
    /\ UNCHANGED <<err, raster, ny_shape, bbox, raster_file, edges,
                   raster_window, ny_raster_array, ny_affine, ny_mask,
                   plotted>>

Next ==
    \/ Bounds
    \/ OpenAndWindow
    \/ Read
    \/ ReadRefused
    \/ BuildAffine
    \/ Rasterize
    \/ RasterizeRefused
    \/ Combine
    \/ Stats

Spec == Init /\ [][Next]_vars

\* ------------------------------------------------------------ properties
lon_min == bbox[1]
lat_min == bbox[2]
lon_max == bbox[3]
lat_max == bbox[4]
rfa == raster.affine

\* how far the run has come
Windowed == pc \notin {"bounds", "window"}
AffineBuilt == Windowed /\ pc # "read" /\ ny_affine # Unset
MaskBuilt == AffineBuilt /\ ny_mask # Unset
Finished == pc \in {"done", "error"}

\* a standard north-up image
NorthUp == rfa.b = 0 /\ rfa.d = 0 /\ rfa.a > 0 /\ rfa.e < 0
AxisAligned == rfa.b = 0 /\ rfa.d = 0

\* a corner of the box falls strictly inside a pixel
FractionalCorners ==
    /\ (lon_min - rfa.c) % Abs(rfa.a) # 0
    /\ (lon_max - rfa.c) % Abs(rfa.a) # 0
    /\ (lat_min - rfa.f) % Abs(rfa.e) # 0
    /\ (lat_max - rfa.f) % Abs(rfa.e) # 0

\* the geographic extent of the raster: west, south, east, north
West == Min2(rfa.c, rfa.c + rfa.a * raster.width)
East == Max2(rfa.c, rfa.c + rfa.a * raster.width)
South == Min2(rfa.f, rfa.f + rfa.e * raster.height)
North == Max2(rfa.f, rfa.f + rfa.e * raster.height)
OutsideExtent ==
    \/ lon_max < West \/ lon_min > East
    \/ lat_max < South \/ lat_min > North

\* the shape has positive area
ProperBox == lon_min < lon_max /\ lat_min < lat_max

\* the cells the mask marks as inside the polygon (mask value 0)
Included == {p \in Cells(ny_mask.shape) : ny_mask.data[p] = 0}

\* C1: for a north-up raster and a box with lon_min <= lon_max and
\* lat_min <= lat_max, the window ((top, bottom+1), (left, right+1)) has
\* row_start < row_end and col_start < col_end.
C1_WindowNonDegenerate ==
    (Windowed /\ NorthUp /\ lon_min <= lon_max /\ lat_min <= lat_max) =>
        /\ RowStart(raster_window) < RowEnd(raster_window)
        /\ ColStart(raster_window) < ColEnd(raster_window)

\* C1 witness: a north-up raster, a box over several rows and columns whose
\* corners fall inside pixels, window resolved.
C1_Witness ==
    /\ Windowed /\ NorthUp /\ FractionalCorners
    /\ edges.top < edges.bottom /\ edges.left < edges.right
    /\ raster_window = <<<<edges.top, edges.bottom + 1>>,
                         <<edges.left, edges.right + 1>>>>

\* C2: for a north-up raster every point of the bounding box maps, under the
\* raster's index, to a (row, col) inside the window: top <= row < bottom+1
\* and left <= col < right+1, also with corners at fractional pixel offsets.
C2_WindowContainsBox ==
    (Windowed /\ NorthUp) =>
        \A lon \in lon_min .. lon_max : \A lat \in lat_min .. lat_max :
            LET rc == index(raster, lon, lat)
            IN  /\ RowStart(raster_window) <= rc[1]
                /\ rc[1] < RowEnd(raster_window)
                /\ ColStart(raster_window) <= rc[2]
                /\ rc[2] < ColEnd(raster_window)

\* C2 witness: a north-up raster and a box with fractional corners that ends
\* in a later row and column than it starts; the point (lon_max, lat_min)
\* lands in the last row and last column of the window.
C2_Witness ==
    /\ Windowed /\ NorthUp /\ FractionalCorners
    /\ lon_min < lon_max /\ lat_min < lat_max
    /\ index(raster, lon_max, lat_min) =
         <<RowEnd(raster_window) - 1, ColEnd(raster_window) - 1>>
    /\ RowEnd(raster_window) - RowStart(raster_window) >= 2
    /\ ColEnd(raster_window) - ColStart(raster_window) >= 2

\* C3: ny_affine copies a, b, d, e from the raster's transform and has as
\* (c, f) the coordinates the raster's transform gives to the top-left pixel
\* (row top, column left) of the window, so that mask cell (i, j) and array
\* cell (i, j) cover the same geography.  Stated for the kindest case: a
\* north-up raster, a shape of positive area and a window inside the raster.
C3_AffineAnchoredAtWindow ==
    (AffineBuilt /\ NorthUp /\ ProperBox /\ InBounds(raster, raster_window)) =>
        /\ ny_affine.a = rfa.a /\ ny_affine.b = rfa.b
        /\ ny_affine.d = rfa.d /\ ny_affine.e = rfa.e
        /\ ny_affine.c = rfa.a * edges.left + rfa.b * edges.top + rfa.c
        /\ ny_affine.f = rfa.d * edges.left + rfa.e * edges.top + rfa.f

\* C4: for a north-up raster, the mask's outer corners (column 0, row 0) and
\* (column width, row height) mapped through ny_affine give a rectangle each
\* of whose edges is within one pixel's scale of the bounding box's edge.
\* Stated for a shape of positive area and a window inside the raster.
C4_RoundTripWithinOnePixel ==
    (MaskBuilt /\ NorthUp /\ ProperBox /\ InBounds(raster, raster_window)) =>
        LET height == ny_mask.shape[1]
            width == ny_mask.shape[2]
            west == ny_affine.c
            north == ny_affine.f
            east == ny_affine.a * width + ny_affine.b * height + ny_affine.c
            south == ny_affine.d * width + ny_affine.e * height + ny_affine.f
        IN  /\ Abs(west - lon_min) <= Abs(rfa.a)
            /\ Abs(east - lon_max) <= Abs(rfa.a)
            /\ Abs(north - lat_max) <= Abs(rfa.e)
            /\ Abs(south - lat_min) <= Abs(rfa.e)

\* C5: min, max, mean and standard deviation are those of exactly the cells
\* with mask value 0; the other cells contribute nothing (they are not
\* zero-valued samples).  With exactly one such cell, of value v,
\* min = max = mean = v and the standard deviation is 0.
C5_StatsOverIncludedOnly ==
    (pc = "done" /\ Included # {}) =>
        LET vals == {ny_raster_array.data[p] : p \in Included}
            n == Cardinality(Included)
            sum == SumOver(Included, ny_raster_array.data)
            sumsq == SumOver(Included,
                       [p \in Included |->
                          ny_raster_array.data[p] * ny_raster_array.data[p]])
        IN  /\ Len(printed.min) = 1 /\ printed.min[1] \in vals
            /\ \A v \in vals : printed.min[1] <= v
            /\ Len(printed.max) = 1 /\ printed.max[1] \in vals
            /\ \A v \in vals : printed.max[1] >= v
            /\ Len(printed.mean) = 2
            /\ printed.mean[1] * n = sum * printed.mean[2]
            /\ Len(printed.std) = 2
            /\ printed.std[1] * n * n = (n * sumsq - sum * sum) * printed.std[2]
            /\ n = 1 =>
                 \A v \in vals :
                    /\ printed.min = <<v>> /\ printed.max = <<v>>
                    /\ printed.mean = <<v, 1>> /\ printed.std = <<0, 1>>

\* C5 witness: the run finished with some cells included and some excluded,
\* and an included cell holding a positive sample (so a zero-valued sample
\* for an excluded cell would lower the minimum and the mean).
C5_Witness ==
    /\ pc = "done" /\ Included # {}
    /\ Included # Cells(ny_mask.shape)
    /\ \A p \in Included : ny_raster_array.data[p] > 0

\* C6: when the bounding box lies entirely outside the raster's extent, the
\* window step ends in a DegenerateWindow error and the run goes no further
\* (no read, no rasterizing, no statistics).  Stated for a north-up raster
\* and a shape of positive area.
C6_OutsideExtentRaises ==
    (Windowed /\ NorthUp /\ ProperBox /\ OutsideExtent) =>
        /\ pc = "error" /\ err = "DegenerateWindow"
        /\ ny_raster_array = Unset /\ ny_mask = Unset /\ printed = Unset

\* C7: when the mask includes no cell, the statistics step ends in an
\* EmptyMask error and reports no min, max, mean or standard deviation.
\* Stated for a north-up raster, a shape of positive area and a window
\* inside the raster, once the statistics cell has run.
C7_EmptyMaskRaises ==
    (/\ MaskBuilt /\ NorthUp /\ ProperBox /\ InBounds(raster, raster_window)
     /\ Included = {} /\ pc \notin {"combine", "stats"}) =>
        (pc = "error" /\ err = "EmptyMask" /\ printed = Unset)

\* C8: when the run is over, after the statistics or after an error, the
\* raster dataset handle is closed.  Stated for a north-up raster, a shape of
\* positive area and a window inside the raster.
C8_HandleClosedAtEnd ==
    (/\ Finished /\ Windowed /\ NorthUp /\ ProperBox
     /\ InBounds(raster, raster_window)) => raster_file = "closed"

\* C9: for every axis-aligned raster (b = d = 0), e of either sign, the
\* window has top < bottom and left < right as window bounds
\* (row_start < row_end, col_start < col_end).
C9_WindowOrderedForAnyRowAxis ==
    (Windowed /\ AxisAligned /\ ProperBox) =>
        /\ RowStart(raster_window) < RowEnd(raster_window)
        /\ ColStart(raster_window) < ColEnd(raster_window)

\* C10: ny_mask has the shape of the windowed pixel array, each of its cells
\* is 0 or 1, and a cell keeps its pixel value in
\* ny_raster_array * (1 - ny_mask) exactly when it is unmasked in ny_masked;
\* every other cell is zero in the product and masked in ny_masked.
C10_MaskShapeAndPolarity ==
    (pc = "done") =>
        /\ ny_mask.shape = ny_raster_array.shape
        /\ DOMAIN ny_mask.data = DOMAIN ny_raster_array.data
        /\ \A p \in Cells(ny_raster_array.shape) :
              /\ ny_mask.data[p] \in {0, 1}
              /\ ny_mask.data[p] = 0 <=> ~ny_masked.mask[p]
              /\ ~ny_masked.mask[p] => plotted.data[p] = ny_raster_array.data[p]
              /\ ny_masked.mask[p] => plotted.data[p] = 0

\* C10 witness: the run finished with an included cell holding a nonzero
\* sample and an excluded cell holding a nonzero sample.
C10_Witness ==
    /\ pc = "done"
    /\ \E p \in Cells(ny_mask.shape) :
          ny_mask.data[p] = 0 /\ ny_raster_array.data[p] # 0
    /\ \E p \in Cells(ny_mask.shape) :
          ny_mask.data[p] = 1 /\ ny_raster_array.data[p] # 0
====
